---- MODULE Spec2Model ----
(***************************************************************************)
(* Model of home.py: the demonstrativo text-block parser                   *)
(* (parse_text_blocks with its inner flush_block), the money normalizer    *)
(* (parse_money) and the script body that derives novo_valor and df_neg.   *)
(*                                                                         *)
(* Text is modelled as a sequence of one-character strings, so the regular *)
(* expressions are matched character by character as `re` matches them.    *)
(* An optional value (Python None / pandas NaN / NaT) is the empty         *)
(* sequence; a present value v is the one-element sequence <<v>>.          *)
(***************************************************************************)
EXTENDS Integers, Sequences, FiniteSets, TLC

None == <<>>
Some(v) == <<v>>

(***************************************************************************)
(* Characters                                                              *)
(***************************************************************************)
Digits == {"0", "1", "2", "3", "4", "5", "6", "7", "8", "9"}
Whitespace == {" ", "\t"}
MoneyChars == Digits \cup {".", ","}

DigitVal(c) ==
  CASE c = "0" -> 0 [] c = "1" -> 1 [] c = "2" -> 2 [] c = "3" -> 3
    [] c = "4" -> 4 [] c = "5" -> 5 [] c = "6" -> 6 [] c = "7" -> 7
    [] c = "8" -> 8 [] c = "9" -> 9

\* The position after the longest run of characters of cls starting at i
\* (a greedy \d+, \s+ or [\d\.,]+ that cannot give characters back, since
\* what follows it in every pattern below is outside the class).
SkipWhile(s, i, cls) ==
  CHOOSE j \in i..(Len(s) + 1) :
    /\ \A k \in i..(j - 1) : s[k] \in cls
    /\ (j = Len(s) + 1 \/ s[j] \notin cls)

\* s[i..j-1]
Slice(s, i, j) == [k \in 1..(j - i) |-> s[i + k - 1]]

\* str.replace(old, new) for one-character old; new is a text (maybe empty)
RECURSIVE replace(_, _, _)
replace(s, old, new) ==
  IF s = <<>> THEN <<>>
  ELSE (IF Head(s) = old THEN new ELSE <<Head(s)>>) \o replace(Tail(s), old, new)

\* str.strip()
strip(s) ==
  LET a == SkipWhile(s, 1, Whitespace)
      b == IF a > Len(s) THEN a
           ELSE CHOOSE j \in a..Len(s) :
                  /\ s[j] \notin Whitespace
                  /\ \A k \in (j + 1)..Len(s) : s[k] \in Whitespace
  IN  IF a > Len(s) THEN <<>> ELSE Slice(s, a, b + 1)

\* int(text) of a run of decimal digits
RECURSIVE int(_)
int(s) ==
  IF s = <<>> THEN 0 ELSE 10 * int(SubSeq(s, 1, Len(s) - 1)) + DigitVal(s[Len(s)])

(***************************************************************************)
(* Numbers.  A float read from a decimal text is kept exactly, as          *)
(* m / 10^e with no trailing zero in the fraction, so that two texts       *)
(* denote equal floats exactly when their records are equal.               *)
(***************************************************************************)
RECURSIVE Norm(_, _)
Norm(m, e) ==
  IF e > 0 /\ m % 10 = 0 THEN Norm(m \div 10, e - 1) ELSE [m |-> m, e |-> e]

\* float(s): Python's float() on a text made of digits, '.', and any other
\* character of the model's alphabet.  Leading and trailing whitespace is
\* stripped; what is left must be digits with at most one '.' and at least
\* one digit, otherwise ValueError.
float(s) ==
  LET t    == strip(s)
      dots == {k \in 1..Len(t) : t[k] = "."}
      ok   == /\ \A k \in 1..Len(t) : t[k] \in Digits \cup {"."}
              /\ Cardinality(dots) <= 1
              /\ \E k \in 1..Len(t) : t[k] \in Digits
      p    == IF dots = {} THEN Len(t) + 1 ELSE CHOOSE k \in dots : TRUE
  IN  IF ok
      THEN [raised |-> FALSE,
            val |-> Some(Norm(int(Slice(t, 1, p) \o Slice(t, p + 1, Len(t) + 1)),
                              Len(t) - p + (IF dots = {} THEN 1 ELSE 0)))]
      ELSE [raised |-> TRUE, val |-> None]

(***************************************************************************)
(* MONEY_RE and parse_money                                                *)
(***************************************************************************)
\* MONEY_RE at position i: R \$ \s* ([\d\.,]+)
MONEY_RE_at(s, i) ==
  /\ i + 1 <= Len(s)
  /\ s[i] = "R"
  /\ s[i + 1] = "$"
  /\ LET j == SkipWhile(s, i + 2, Whitespace)
     IN  j <= Len(s) /\ s[j] \in MoneyChars

\* MONEY_RE.search(s): group 1 of the leftmost match, or None
MONEY_RE_search(s) ==
  LET hits == {i \in 1..Len(s) : MONEY_RE_at(s, i)}
  IN  IF hits = {} THEN None
      ELSE LET i == CHOOSE h \in hits : \A g \in hits : h <= g
               j == SkipWhile(s, i + 2, Whitespace)
           IN  Some(Slice(s, j, SkipWhile(s, j, MoneyChars)))

\* a slip: the conversion is not guarded, so a ValueError escapes
try_float_Unguarded(x) == float(x)

\* try: return float(x) / except Exception: return None
try_float(x) ==
  LET r == float(x)
  IN  IF r.raised THEN [raised |-> FALSE, val |-> None] ELSE r

\* a slip: behind a currency prefix the thousands separators are left in
parse_money_KeepsDots(s) ==
  IF s = None \/ s = Some(<<>>) THEN [raised |-> FALSE, val |-> None]
  ELSE LET m == MONEY_RE_search(s[1])
       IN  IF m = None
           THEN try_float(replace(replace(s[1], ".", <<>>), ",", <<".">>))
           ELSE try_float(replace(m[1], ",", <<".">>))

\* parse_money(s), s an optional text.  The result says whether the call
\* raised and, if it did not, the value returned.
parse_money(s) ==
  IF s = None \/ s = Some(<<>>) THEN [raised |-> FALSE, val |-> None]
  ELSE LET m == MONEY_RE_search(s[1])
       IN  IF m = None
           THEN try_float(replace(replace(s[1], ".", <<>>), ",", <<".">>))
           ELSE try_float(replace(replace(m[1], ".", <<>>), ",", <<".">>))

(***************************************************************************)
(* clean_spaces, is_tipo_pf                                                *)
(***************************************************************************)
\* re.sub(r"\s+", " ", s): every run of whitespace becomes one space
RECURSIVE sub_spaces(_)
sub_spaces(s) ==
  IF s = <<>> THEN <<>>
  ELSE IF Head(s) \in Whitespace
       THEN <<" ">> \o sub_spaces(Slice(s, SkipWhile(s, 1, Whitespace), Len(s) + 1))
       ELSE <<Head(s)>> \o sub_spaces(Tail(s))

clean_spaces(s) == strip(sub_spaces(s))

LowerCase == <<"a", "b", "c", "d", "e", "f", "g", "h", "i", "j", "k", "l", "m",
               "n", "o", "p", "q", "r", "s", "t", "u", "v", "w", "x", "y", "z">>
UpperCase == <<"A", "B", "C", "D", "E", "F", "G", "H", "I", "J", "K", "L", "M",
               "N", "O", "P", "Q", "R", "S", "T", "U", "V", "W", "X", "Y", "Z">>

\* str.upper()
upper(s) ==
  [k \in 1..Len(s) |->
     IF \E n \in 1..26 : LowerCase[n] = s[k]
     THEN UpperCase[CHOOSE n \in 1..26 : LowerCase[n] = s[k]]
     ELSE s[k]]

CONSULTA == <<"C", "O", "N", "S", "U", "L", "T", "A">>
EXAME == <<"E", "X", "A", "M", "E">>
OUTROS == <<"O", "U", "T", "R", "O", "S">>

\* is_tipo_pf(line): the uppercased label, or None
is_tipo_pf(line) ==
  LET line_up == upper(strip(line))
  IN  IF line_up \in {CONSULTA, EXAME, OUTROS} THEN Some(line_up) ELSE None

(***************************************************************************)
(* RE_HEAD, RE_TAIL, RE_VALS                                               *)
(***************************************************************************)
\* s[i..] starts with the template t, in which "d" stands for \d and every
\* other character for itself
MatchesAt(s, i, t) ==
  /\ i + Len(t) - 1 <= Len(s)
  /\ \A k \in 1..Len(t) :
       IF t[k] = "d" THEN s[i + k - 1] \in Digits ELSE s[i + k - 1] = t[k]

DateShape == <<"d", "d", "/", "d", "d", "/", "d", "d", "d", "d">>
CodeShape == <<"d", ".", "d", "d", ".", "d", "d", ".", "d", "d", "-", "d">>

\* RE_HEAD.match(line): the named groups, or None
\*   ^(?P<peg>\d{6,})\s+(?P<guia>\d+)\s+(?P<data>\d{2}/\d{2}/\d{4})\s+
\*    (?P<codigo>\d\.\d{2}\.\d{2}\.\d{2}-\d)
RE_HEAD_match(s) ==
  LET p1 == SkipWhile(s, 1, Digits)
      p2 == SkipWhile(s, p1, Whitespace)
      p3 == SkipWhile(s, p2, Digits)
      p4 == SkipWhile(s, p3, Whitespace)
      p5 == p4 + Len(DateShape)
      p6 == SkipWhile(s, p5, Whitespace)
  IN  IF /\ p1 - 1 >= 6
         /\ p2 > p1
         /\ p3 > p2
         /\ p4 > p3
         /\ MatchesAt(s, p4, DateShape)
         /\ p6 > p5
         /\ MatchesAt(s, p6, CodeShape)
      THEN Some([peg    |-> Slice(s, 1, p1),
                 guia   |-> Slice(s, p2, p3),
                 data   |-> Slice(s, p4, p5),
                 codigo |-> Slice(s, p6, p6 + Len(CodeShape))])
      ELSE None

\* RE_TAIL matched with its first character at position i:
\*   (?P<qtd>\d+)\s+R\$\s*[\d\.,]+\s+R\$\s*[\d\.,]+$
RE_TAIL_at(s, i) ==
  LET a == SkipWhile(s, i, Digits)
      b == SkipWhile(s, a, Whitespace)
      c == SkipWhile(s, b + 2, Whitespace)
      d == SkipWhile(s, c, MoneyChars)
      e == SkipWhile(s, d, Whitespace)
      f == SkipWhile(s, e + 2, Whitespace)
      g == SkipWhile(s, f, MoneyChars)
  IN  /\ a > i
      /\ b > a
      /\ b + 1 <= Len(s) /\ s[b] = "R" /\ s[b + 1] = "$"
      /\ d > c
      /\ e > d
      /\ e + 1 <= Len(s) /\ s[e] = "R" /\ s[e + 1] = "$"
      /\ g > f
      /\ g = Len(s) + 1

\* RE_TAIL.search(line): whether the pattern matches somewhere in the line
RE_TAIL_search(s) == \E i \in 1..Len(s) : RE_TAIL_at(s, i)

\* a slip: the amounts of the value grammar leave out the '.' ([\d,]+)
RE_VALS_at_NoDots(s, i) ==
  LET NoDots == MoneyChars \ {"."}
      q1 == SkipWhile(s, i, Digits)
      r1 == SkipWhile(s, q1, Whitespace)
      v0 == SkipWhile(s, r1 + 2, Whitespace)
      v1 == SkipWhile(s, v0, NoDots)
      r2 == SkipWhile(s, v1, Whitespace)
      c0 == SkipWhile(s, r2 + 2, Whitespace)
      c1 == SkipWhile(s, c0, NoDots)
  IN  IF /\ q1 > i
         /\ r1 > q1
         /\ r1 + 1 <= Len(s) /\ s[r1] = "R" /\ s[r1 + 1] = "$"
         /\ v1 > v0
         /\ r2 > v1
         /\ r2 + 1 <= Len(s) /\ s[r2] = "R" /\ s[r2 + 1] = "$"
         /\ c1 > c0
         /\ c1 = Len(s) + 1
      THEN Some([qtd     |-> Slice(s, i, q1),
                 vl_pago |-> Slice(s, v0, v1),
                 copart  |-> Slice(s, c0, c1)])
      ELSE None

\* RE_VALS matched with its first character at position i; the groups, or None:
\*   (?P<qtd>\d+)\s+R\$\s*(?P<vl_pago>[\d\.,]+)\s+R\$\s*(?P<copart>[\d\.,]+)$
RE_VALS_at(s, i) ==
  LET q1 == SkipWhile(s, i, Digits)
      r1 == SkipWhile(s, q1, Whitespace)
      v0 == SkipWhile(s, r1 + 2, Whitespace)
      v1 == SkipWhile(s, v0, MoneyChars)
      r2 == SkipWhile(s, v1, Whitespace)
      c0 == SkipWhile(s, r2 + 2, Whitespace)
      c1 == SkipWhile(s, c0, MoneyChars)
  IN  IF /\ q1 > i
         /\ r1 > q1
         /\ r1 + 1 <= Len(s) /\ s[r1] = "R" /\ s[r1 + 1] = "$"
         /\ v1 > v0
         /\ r2 > v1
         /\ r2 + 1 <= Len(s) /\ s[r2] = "R" /\ s[r2 + 1] = "$"
         /\ c1 > c0
         /\ c1 = Len(s) + 1
      THEN Some([qtd     |-> Slice(s, i, q1),
                 vl_pago |-> Slice(s, v0, v1),
                 copart  |-> Slice(s, c0, c1)])
      ELSE None

\* RE_VALS.search(line): the groups of the leftmost match, or None
RE_VALS_search(s) ==
  LET hits == {i \in 1..Len(s) : RE_VALS_at(s, i) # None}
  IN  IF hits = {} THEN None
      ELSE RE_VALS_at(s, CHOOSE h \in hits : \A g \in hits : h <= g)

(***************************************************************************)
(* The raw lines a document is made of (pdf_text.splitlines()).            *)
(***************************************************************************)
\* a heading line: '123456 7 01/02/2023 1.23.45.67-8'
Raw_H1 ==
  <<"1", "2", "3", "4", "5", "6", " ", "7", " ", "0", "1", "/", "0", "2",
    "/", "2", "0", "2", "3", " ", "1", ".", "2", "3", ".", "4", "5", ".",
    "6", "7", "-", "8">>
\* a heading line whose date is no calendar date: '654321 89 31/02/2023 2.34.56.78-9'
Raw_H2 ==
  <<"6", "5", "4", "3", "2", "1", " ", "8", "9", " ", "3", "1", "/", "0",
    "2", "/", "2", "0", "2", "3", " ", "2", ".", "3", "4", ".", "5", "6",
    ".", "7", "8", "-", "9">>
\* a heading line whose date lies beyond what a Timestamp holds: '234567 1 01/01/3000 1.23.45.67-8'
Raw_H3 ==
  <<"2", "3", "4", "5", "6", "7", " ", "1", " ", "0", "1", "/", "0", "1",
    "/", "3", "0", "0", "0", " ", "1", ".", "2", "3", ".", "4", "5", ".",
    "6", "7", "-", "8">>
\* a heading line that also ends in a quantity and two amounts
\* (12 * 0.30 - 30 = -26.4): '1234567 8 29/02/2024 1.23.45.67-8 RX 1 R$ 12,00 R$ 30,00'
Raw_HT ==
  <<"1", "2", "3", "4", "5", "6", "7", " ", "8", " ", "2", "9", "/", "0",
    "2", "/", "2", "0", "2", "4", " ", "1", ".", "2", "3", ".", "4", "5",
    ".", "6", "7", "-", "8", " ", "R", "X", " ", "1", " ", "R", "$", " ",
    "1", "2", ",", "0", "0", " ", "R", "$", " ", "3", "0", ",", "0", "0">>
\* a category marker: 'CONSULTA'
Raw_M1 ==
  <<"C", "O", "N", "S", "U", "L", "T", "A">>
\* a category marker, in lower case and not trimmed: ' exame'
Raw_M2 ==
  <<" ", "e", "x", "a", "m", "e">>
\* plain text: 'Dr. Silva'
Raw_B1 ==
  <<"D", "r", ".", " ", "S", "i", "l", "v", "a">>
\* plain text with a doubled and a trailing blank; no marker: 'consulta  extra '
Raw_B2 ==
  <<"c", "o", "n", "s", "u", "l", "t", "a", " ", " ", "e", "x", "t", "r",
    "a", " ">>
\* quantity and amounts: 100 * 0.30 - 30 = 0: '2 R$ 100,00 R$ 30,00'
Raw_T1 ==
  <<"2", " ", "R", "$", " ", "1", "0", "0", ",", "0", "0", " ", "R", "$",
    " ", "3", "0", ",", "0", "0">>
\* quantity and amounts: 200 * 0.30 - 10 = 50: '1 R$ 200,00 R$ 10,00'
Raw_T2 ==
  <<"1", " ", "R", "$", " ", "2", "0", "0", ",", "0", "0", " ", "R", "$",
    " ", "1", "0", ",", "0", "0">>
\* quantity and amounts, the paid amount unparseable: '3 R$ 1,2,3 R$ 5,00'
Raw_T3 ==
  <<"3", " ", "R", "$", " ", "1", ",", "2", ",", "3", " ", "R", "$", " ",
    "5", ",", "0", "0">>
\* quantity and amounts: 1000 * 0.30 - 450.5 = -150.5: '1 R$ 1.000,00 R$ 450,50'
Raw_T4 ==
  <<"1", " ", "R", "$", " ", "1", ".", "0", "0", "0", ",", "0", "0", " ",
    "R", "$", " ", "4", "5", "0", ",", "5", "0">>
\* a blank line: ' '
Raw_BL ==
  <<" ">>

RawPool == {Raw_H1, Raw_H2, Raw_H3, Raw_HT, Raw_M1, Raw_M2, Raw_B1,
            Raw_B2, Raw_T1, Raw_T2, Raw_T3, Raw_T4, Raw_BL}

(***************************************************************************)
(* Bounds                                                                  *)
(***************************************************************************)
\* raw lines in a document
MaxLines == 3
\* characters in a text handed to parse_money
MaxMoneyLen == 4

(***************************************************************************)
(* State                                                                   *)
(***************************************************************************)
VARIABLES
  pdf_lines,            \* the raw lines of the uploaded document's text
  pc,                   \* where the script run stands
  lines,                \* parse_text_blocks: the cleaned, non-blank lines
  pos,                  \* parse_text_blocks: index of the next line of the for loop
  current_tipo_pf,      \* parse_text_blocks: the current category, or None
  records,              \* parse_text_blocks: the records built so far
  current_block_lines,  \* parse_text_blocks: the lines of the block in progress
  current_head,         \* parse_text_blocks: the heading match of the block, or None
  blocks,               \* history: the lines each record was built from
  df_reg,               \* the table of the script run
  df_neg,               \* the rows of df_reg with novo_valor < 0
  first_run,            \* history: the tables of the first completed run, or None
  m_in,                 \* parse_money alone: its argument
  m_out,                \* parse_money alone: its outcome
  m_pc                  \* parse_money alone: "call", "return", or "off"

parser_vars == <<pdf_lines, pc, lines, pos, current_tipo_pf, records,
                 current_block_lines, current_head, blocks, df_reg, df_neg,
                 first_run>>
money_vars == <<m_in, m_out, m_pc>>
vars == <<pdf_lines, pc, lines, pos, current_tipo_pf, records,
          current_block_lines, current_head, blocks, df_reg, df_neg,
          first_run, m_in, m_out, m_pc>>

(***************************************************************************)
(* The patterns on the lines of the pool, computed once                    *)
(***************************************************************************)
\* [clean_spaces(l) for l in pdf_text.splitlines() if l.strip()]
RECURSIVE clean_lines(_)
clean_lines(raw) ==
  IF raw = <<>> THEN <<>>
  ELSE IF strip(Head(raw)) # <<>>
       THEN <<clean_spaces(Head(raw))>> \o clean_lines(Tail(raw))
       ELSE clean_lines(Tail(raw))

LinePool == {clean_spaces(l) : l \in {r \in RawPool : strip(r) # <<>>}}

tipo_pf_of == [l \in LinePool |-> is_tipo_pf(l)] @@ <<>>
head_of == [l \in LinePool |-> RE_HEAD_match(l)] @@ <<>>
tail_in == [l \in LinePool |-> RE_TAIL_search(l)] @@ <<>>
vals_of == [l \in LinePool |-> RE_VALS_search(l)] @@ <<>>

(***************************************************************************)
(* flush_block                                                             *)
(***************************************************************************)
\* " ".join(texts)
RECURSIVE join(_)
join(texts) ==
  IF texts = <<>> THEN <<>>
  ELSE IF Len(texts) = 1 THEN texts[1]
       ELSE texts[1] \o <<" ">> \o join(Tail(texts))

\* a slip: the scan for the trailing line leaves out the heading line
find_tail_line_SkipsHeading(block_lines) ==
  LET hits == {k \in 2..Len(block_lines) : tail_in[block_lines[k]]}
  IN  IF hits = {} THEN None
      ELSE Some(block_lines[CHOOSE k \in hits : \A h \in hits : h <= k])

\* a slip: the scan runs from the front and stops at the first match
find_tail_line_First(block_lines) ==
  LET hits == {k \in 1..Len(block_lines) : tail_in[block_lines[k]]}
  IN  IF hits = {} THEN None
      ELSE Some(block_lines[CHOOSE k \in hits : \A h \in hits : k <= h])

\* for l in reversed(current_block_lines): if RE_TAIL.search(l): tail_line = l; break
find_tail_line(block_lines) ==
  LET hits == {k \in 1..Len(block_lines) : tail_in[block_lines[k]]}
  IN  IF hits = {} THEN None
      ELSE Some(block_lines[CHOOSE k \in hits : \A h \in hits : h <= k])

\* the lines of the block that are neither equal to tail_line nor a heading
find_body_lines(block_lines, tail_line) ==
  LET keep(l) == Some(l) # tail_line /\ head_of[l] = None
  IN  SelectSeq(block_lines, keep)

\* a slip: the first body line is taken for the provider
pick_prestador_lines_First(body_lines) ==
  IF body_lines # <<>> THEN <<body_lines[1]>> ELSE <<>>

\* if body_lines: prestador_lines.append(body_lines[-1])
pick_prestador_lines(body_lines) ==
  IF body_lines # <<>> THEN <<body_lines[Len(body_lines)]>> ELSE <<>>

\* if body_lines: desc_lines = body_lines[:-1]; else: desc_lines = []
pick_desc_lines(body_lines) ==
  IF body_lines # <<>> THEN SubSeq(body_lines, 1, Len(body_lines) - 1) ELSE <<>>

\* the record flush_block appends for a block with a heading
build_record(tipo_pf, block_lines, head) ==
  LET tail_line  == find_tail_line(block_lines)
      mvals      == IF tail_line = None THEN None ELSE vals_of[tail_line[1]]
      body_lines == find_body_lines(block_lines, tail_line)
      prestador_lines == pick_prestador_lines(body_lines)
      desc_lines == pick_desc_lines(body_lines)
  IN  [tipo_pf        |-> tipo_pf,
       peg            |-> head.peg,
       guia           |-> head.guia,
       data           |-> head.data,
       codigo         |-> head.codigo,
       descricao      |-> IF desc_lines # <<>>
                          THEN Some(clean_spaces(join(desc_lines))) ELSE None,
       prestador      |-> IF prestador_lines # <<>>
                          THEN Some(clean_spaces(join(prestador_lines))) ELSE None,
       qtd            |-> IF mvals # None THEN Some(int(mvals[1].qtd)) ELSE None,
       valor_pago     |-> IF mvals # None
                          THEN parse_money(Some(mvals[1].vl_pago)).val ELSE None,
       coparticipacao |-> IF mvals # None
                          THEN parse_money(Some(mvals[1].copart)).val ELSE None]

\* a slip: a block holding only its heading line is dropped
flush_emits_NeedsBody(block_lines, head) == head # None /\ Len(block_lines) > 1

\* whether flush_block builds a record: not the early return of
\* "if not current_head or not current_block_lines"
flush_emits(block_lines, head) == head # None /\ block_lines # <<>>

\* a slip: the record is put at the front of the list
flush_records_Prepend(recs, tipo_pf, block_lines, head) ==
  IF head # None /\ block_lines # <<>>
  THEN <<build_record(tipo_pf, block_lines, head[1])>> \o recs
  ELSE recs

\* flush_block(): records afterwards (block and heading are reset by the caller
\* of this operator, as flush_block resets them on both paths)
flush_records(recs, tipo_pf, block_lines, head) ==
  IF flush_emits(block_lines, head)
  THEN Append(recs, build_record(tipo_pf, block_lines, head[1]))
  ELSE recs

\* history of flush_block(): the lines of each block that became a record
flush_blocks(blks, block_lines, head) ==
  IF flush_emits(block_lines, head) THEN Append(blks, block_lines) ELSE blks

(***************************************************************************)
(* The table: dates and the derived value                                  *)
(***************************************************************************)
DigitChar == <<"0", "1", "2", "3", "4", "5", "6", "7", "8", "9">>

RECURSIVE Pow10(_)
Pow10(k) == IF k = 0 THEN 1 ELSE 10 * Pow10(k - 1)

\* the decimal digits of n, zero-padded to width w (%02d, %04d)
RECURSIVE zero_pad(_, _)
zero_pad(n, w) ==
  IF w = 0 THEN <<>> ELSE zero_pad(n \div 10, w - 1) \o <<DigitChar[(n % 10) + 1]>>

is_leap(y) == (y % 4 = 0 /\ y % 100 # 0) \/ y % 400 = 0

days_in_month(m, y) ==
  IF m = 2 THEN (IF is_leap(y) THEN 29 ELSE 28)
  ELSE IF m \in {4, 6, 9, 11} THEN 30 ELSE 31

\* pd.to_datetime(text, format="%d/%m/%Y", errors="coerce") on a text of the
\* shape dd/dd/dddd: the date, or None (NaT) when it is no calendar date or
\* lies outside what a nanosecond Timestamp holds (1677-09-22 .. 2262-04-11)
to_datetime(text) ==
  LET d == int(SubSeq(text, 1, 2))
      m == int(SubSeq(text, 4, 5))
      y == int(SubSeq(text, 7, 10))
      key == (y * 100 + m) * 100 + d
  IN  IF /\ m \in 1..12
         /\ d >= 1
         /\ d <= days_in_month(m, y)
         /\ key >= 16770922
         /\ key <= 22620411
      THEN Some([day |-> d, month |-> m, year |-> y])
      ELSE None

\* .dt.strftime("%d/%m/%Y"); NaT gives NaN
strftime(ts) ==
  IF ts = None THEN None
  ELSE Some(zero_pad(ts[1].day, 2) \o <<"/">> \o zero_pad(ts[1].month, 2)
            \o <<"/">> \o zero_pad(ts[1].year, 4))

\* pd.DataFrame.from_records(records), then, if the table is not empty,
\* df["data"] = pd.to_datetime(df["data"], format="%d/%m/%Y", errors="coerce")
make_frame(recs) ==
  [k \in 1..Len(recs) |-> [recs[k] EXCEPT !.data = to_datetime(recs[k].data)]]

\* a slip: the fraction is cut off (floor) instead of rounded
round_half_even_Floor(n, d) == n \div d

\* n / d rounded to an integer, a tie going to the even neighbour (numpy's
\* round); d > 0, and \div rounds toward minus infinity
round_half_even(n, d) ==
  LET q == n \div d
      r == n % d
  IN  IF 2 * r < d THEN q
      ELSE IF 2 * r > d THEN q + 1
      ELSE IF q % 2 = 0 THEN q ELSE q + 1

\* round((valor_pago * 0.30) - coparticipacao, 0) for one row; NaN when
\* either amount is NaN.  The arithmetic is exact: paid = m1 / 10^e1 and
\* copart = m2 / 10^e2 give (3 * m1 / 10^(e1 + 1)) - m2 / 10^e2.
novo_valor(valor_pago, coparticipacao) ==
  IF valor_pago = None \/ coparticipacao = None THEN None
  ELSE LET e1 == valor_pago[1].e + 1
           e2 == coparticipacao[1].e
           e  == IF e1 > e2 THEN e1 ELSE e2
           n  == 3 * valor_pago[1].m * Pow10(e - e1)
                 - coparticipacao[1].m * Pow10(e - e2)
       IN  Some(round_half_even(n, Pow10(e)))

\* the script body on a non-empty table: the novo_valor column and the
\* dates written back as text
with_novo_valor(df) ==
  [k \in 1..Len(df) |->
     [tipo_pf        |-> df[k].tipo_pf,
      peg            |-> df[k].peg,
      guia           |-> df[k].guia,
      data           |-> strftime(df[k].data),
      codigo         |-> df[k].codigo,
      descricao      |-> df[k].descricao,
      prestador      |-> df[k].prestador,
      qtd            |-> df[k].qtd,
      valor_pago     |-> df[k].valor_pago,
      coparticipacao |-> df[k].coparticipacao,
      novo_valor     |-> novo_valor(df[k].valor_pago, df[k].coparticipacao)]]

\* a slip: <= instead of <
is_negative_OrZero(row) == row.novo_valor # None /\ row.novo_valor[1] <= 0

\* df_reg["novo_valor"] < 0 for one row; a comparison with NaN is False
is_negative(row) == row.novo_valor # None /\ row.novo_valor[1] < 0

\* df_reg[df_reg["novo_valor"] < 0].copy()
negative_rows(df) == SelectSeq(df, is_negative)

(***************************************************************************)
(* The script run: parse_text_blocks, then the dashboard                   *)
(***************************************************************************)
Init ==
  /\ \E n \in 0..MaxLines : pdf_lines \in [1..n -> RawPool]
  /\ pc = "start"
  /\ lines = <<>>
  /\ pos = 1
  /\ current_tipo_pf = None
  /\ records = <<>>
  /\ current_block_lines = <<>>
  /\ current_head = None
  /\ blocks = <<>>
  /\ df_reg = <<>>
  /\ df_neg = <<>>
  /\ first_run = None
  /\ m_in = None
  /\ m_out = None
  /\ m_pc = "off"

\* a slip: the current category outlives the call (kept at module level)
ParseStart_KeepsTipo ==
  /\ pc = "start"
  /\ lines' = clean_lines(pdf_lines)
  /\ pos' = 1
  /\ records' = <<>>
  /\ current_block_lines' = <<>>
  /\ current_head' = None
  /\ blocks' = <<>>
  /\ pc' = "loop"
  /\ UNCHANGED <<pdf_lines, current_tipo_pf, df_reg, df_neg, first_run>>
  /\ UNCHANGED money_vars

\* parse_text_blocks is entered: its locals are set up
ParseStart ==
  /\ pc = "start"
  /\ lines' = clean_lines(pdf_lines)
  /\ pos' = 1
  /\ current_tipo_pf' = None
  /\ records' = <<>>
  /\ current_block_lines' = <<>>
  /\ current_head' = None
  /\ blocks' = <<>>
  /\ pc' = "loop"
  /\ UNCHANGED <<pdf_lines, df_reg, df_neg, first_run>>
  /\ UNCHANGED money_vars

\* a slip: the category is set before the block in progress is flushed
OnMarker_SetsFirst ==
  /\ pc = "loop"
  /\ pos <= Len(lines)
  /\ LET line == lines[pos]
         tp   == tipo_pf_of[line]
     IN  /\ tp # None
         /\ records' = flush_records(records, tp,
                                     current_block_lines, current_head)
         /\ blocks' = flush_blocks(blocks, current_block_lines, current_head)
         /\ current_block_lines' = <<>>
         /\ current_head' = None
         /\ current_tipo_pf' = tp
  /\ pos' = pos + 1
  /\ UNCHANGED <<pdf_lines, pc, lines, df_reg, df_neg, first_run>>
  /\ UNCHANGED money_vars

\* a slip: the marker sets the category but leaves the block in progress
OnMarker_NoFlush ==
  /\ pc = "loop"
  /\ pos <= Len(lines)
  /\ tipo_pf_of[lines[pos]] # None
  /\ current_tipo_pf' = tipo_pf_of[lines[pos]]
  /\ pos' = pos + 1
  /\ UNCHANGED <<pdf_lines, pc, lines, records, blocks, current_block_lines,
                 current_head, df_reg, df_neg, first_run>>
  /\ UNCHANGED money_vars

\* a slip: the resets of flush_block do not reach the variables of the scan
OnMarker_NoReset ==
  /\ pc = "loop"
  /\ pos <= Len(lines)
  /\ tipo_pf_of[lines[pos]] # None
  /\ records' = flush_records(records, current_tipo_pf,
                              current_block_lines, current_head)
  /\ blocks' = flush_blocks(blocks, current_block_lines, current_head)
  /\ current_tipo_pf' = tipo_pf_of[lines[pos]]
  /\ pos' = pos + 1
  /\ UNCHANGED <<pdf_lines, pc, lines, current_block_lines, current_head,
                 df_reg, df_neg, first_run>>
  /\ UNCHANGED money_vars

\* for line in lines: a category marker
OnMarker ==
  /\ pc = "loop"
  /\ pos <= Len(lines)
  /\ LET line == lines[pos]
         tp   == tipo_pf_of[line]
     IN  /\ tp # None
         /\ records' = flush_records(records, current_tipo_pf,
                                     current_block_lines, current_head)
         /\ blocks' = flush_blocks(blocks, current_block_lines, current_head)
         /\ current_block_lines' = <<>>
         /\ current_head' = None
         /\ current_tipo_pf' = tp
  /\ pos' = pos + 1
  /\ UNCHANGED <<pdf_lines, pc, lines, df_reg, df_neg, first_run>>
  /\ UNCHANGED money_vars

\* for line in lines: a heading
OnHeading ==
  /\ pc = "loop"
  /\ pos <= Len(lines)
  /\ LET line == lines[pos]
         head == head_of[line]
     IN  /\ tipo_pf_of[line] = None
         /\ head # None
         /\ records' = flush_records(records, current_tipo_pf,
                                     current_block_lines, current_head)
         /\ blocks' = flush_blocks(blocks, current_block_lines, current_head)
         /\ current_head' = head
         /\ current_block_lines' = <<line>>
  /\ pos' = pos + 1
  /\ UNCHANGED <<pdf_lines, pc, lines, current_tipo_pf, df_reg, df_neg, first_run>>
  /\ UNCHANGED money_vars

\* a slip: a line with the trailing pattern is kept without closing the block
OnBlockLine_NoFlush ==
  /\ pc = "loop"
  /\ pos <= Len(lines)
  /\ tipo_pf_of[lines[pos]] = None
  /\ head_of[lines[pos]] = None
  /\ current_head # None
  /\ current_block_lines' = Append(current_block_lines, lines[pos])
  /\ pos' = pos + 1
  /\ UNCHANGED <<pdf_lines, pc, lines, current_tipo_pf, records, blocks,
                 current_head, df_reg, df_neg, first_run>>
  /\ UNCHANGED money_vars

\* a slip: the flush on a trailing line emits the record but leaves the
\* block in progress
OnBlockLine_NoReset ==
  /\ pc = "loop"
  /\ pos <= Len(lines)
  /\ LET line  == lines[pos]
         block == Append(current_block_lines, line)
     IN  /\ tipo_pf_of[line] = None
         /\ head_of[line] = None
         /\ current_head # None
         /\ current_block_lines' = block
         /\ IF tail_in[line]
            THEN /\ records' = flush_records(records, current_tipo_pf, block, current_head)
                 /\ blocks' = flush_blocks(blocks, block, current_head)
            ELSE UNCHANGED <<records, blocks>>
  /\ pos' = pos + 1
  /\ UNCHANGED <<pdf_lines, pc, lines, current_tipo_pf, current_head, df_reg,
                 df_neg, first_run>>
  /\ UNCHANGED money_vars

\* for line in lines: any other line while a block is in progress
OnBlockLine ==
  /\ pc = "loop"
  /\ pos <= Len(lines)
  /\ LET line  == lines[pos]
         block == Append(current_block_lines, line)
     IN  /\ tipo_pf_of[line] = None
         /\ head_of[line] = None
         /\ current_head # None
         /\ IF tail_in[line]
            THEN /\ records' = flush_records(records, current_tipo_pf,
                                             block, current_head)
                 /\ blocks' = flush_blocks(blocks, block, current_head)
                 /\ current_block_lines' = <<>>
                 /\ current_head' = None
            ELSE /\ current_block_lines' = block
                 /\ UNCHANGED <<records, blocks, current_head>>
  /\ pos' = pos + 1
  /\ UNCHANGED <<pdf_lines, pc, lines, current_tipo_pf, df_reg, df_neg, first_run>>
  /\ UNCHANGED money_vars

\* a slip: the line is kept although no block is in progress
OnIdleLine_Keeps ==
  /\ pc = "loop"
  /\ pos <= Len(lines)
  /\ LET line == lines[pos]
     IN  /\ tipo_pf_of[line] = None
         /\ head_of[line] = None
         /\ current_head = None
         /\ current_block_lines' = Append(current_block_lines, line)
  /\ pos' = pos + 1
  /\ UNCHANGED <<pdf_lines, pc, lines, current_tipo_pf, records,
                 current_head, blocks, df_reg, df_neg, first_run>>
  /\ UNCHANGED money_vars

\* for line in lines: any other line while no block is in progress
OnIdleLine ==
  /\ pc = "loop"
  /\ pos <= Len(lines)
  /\ LET line == lines[pos]
     IN  /\ tipo_pf_of[line] = None
         /\ head_of[line] = None
         /\ current_head = None
  /\ pos' = pos + 1
  /\ UNCHANGED <<pdf_lines, pc, lines, current_tipo_pf, records,
                 current_block_lines, current_head, blocks, df_reg, df_neg,
                 first_run>>
  /\ UNCHANGED money_vars

\* a slip: the table is built without the final flush_block()
ParseEnd_NoFlush ==
  /\ pc = "loop"
  /\ pos > Len(lines)
  /\ df_reg' = make_frame(records)
  /\ df_neg' = <<>>
  /\ pc' = "parsed"
  /\ UNCHANGED <<pdf_lines, lines, pos, current_tipo_pf, records, blocks,
                 current_block_lines, current_head, first_run>>
  /\ UNCHANGED money_vars

\* the loop is over: the final flush_block(), the table, the return
ParseEnd ==
  /\ pc = "loop"
  /\ pos > Len(lines)
  /\ records' = flush_records(records, current_tipo_pf,
                              current_block_lines, current_head)
  /\ blocks' = flush_blocks(blocks, current_block_lines, current_head)
  /\ current_block_lines' = <<>>
  /\ current_head' = None
  /\ df_reg' = make_frame(records')
  /\ df_neg' = <<>>
  /\ pc' = "parsed"
  /\ UNCHANGED <<pdf_lines, lines, pos, current_tipo_pf, first_run>>
  /\ UNCHANGED money_vars

\* if df_reg.empty: st.warning(...)
ShowWarning ==
  /\ pc = "parsed"
  /\ df_reg = <<>>
  /\ pc' = "done"
  /\ UNCHANGED <<pdf_lines, lines, pos, current_tipo_pf, records,
                 current_block_lines, current_head, blocks, df_reg, df_neg,
                 first_run>>
  /\ UNCHANGED money_vars

\* else: novo_valor, the dates as text, df_neg
ShowDashboard ==
  /\ pc = "parsed"
  /\ df_reg # <<>>
  /\ df_reg' = with_novo_valor(df_reg)
  /\ df_neg' = negative_rows(df_reg')
  /\ pc' = "done"
  /\ UNCHANGED <<pdf_lines, lines, pos, current_tipo_pf, records,
                 current_block_lines, current_head, blocks, first_run>>
  /\ UNCHANGED money_vars

\* the script is run again on the same upload (any interaction with the page)
Rerun ==
  /\ pc = "done"
  /\ first_run' = IF first_run = None
                  THEN Some([df_reg |-> df_reg, df_neg |-> df_neg])
                  ELSE first_run
  /\ pc' = "start"
  /\ UNCHANGED <<pdf_lines, lines, pos, current_tipo_pf, records,
                 current_block_lines, current_head, blocks, df_reg, df_neg>>
  /\ UNCHANGED money_vars

Next ==
  \/ ParseStart
  \/ OnMarker
  \/ OnHeading
  \/ OnBlockLine
  \/ OnIdleLine
  \/ ParseEnd
  \/ ShowWarning
  \/ ShowDashboard
  \/ Rerun

Spec == Init /\ [][Next]_vars

(***************************************************************************)
(* parse_money on its own: every short text over the characters a money    *)
(* text is made of, bare and behind a currency prefix                      *)
(***************************************************************************)
MoneyAlphabet == {"R", "$", " ", ".", ",", "0", "1", "2"}

Text_1234_56 == <<"1", ".", "2", "3", "4", ",", "5", "6">>
Prefix_RS == <<"R", "$">>
Prefix_RS_blank == <<"R", "$", " ">>

MoneyPrefixes == {<<>>, Prefix_RS, Prefix_RS_blank}

\* the argument: None, or a text of MoneyTexts or the text 1.234,56, bare
\* or behind a currency prefix
IsMoneyInput(x) ==
  \/ x = None
  \/ \E pre \in MoneyPrefixes :
       \/ \E n \in 0..MaxMoneyLen : \E t \in [1..n -> MoneyAlphabet] :
            x = Some(pre \o t)
       \/ x = Some(pre \o Text_1234_56)

InitMoney ==
  /\ IsMoneyInput(m_in)
  /\ m_out = None
  /\ m_pc = "call"
  /\ pdf_lines = <<>>
  /\ pc = "off"
  /\ lines = <<>>
  /\ pos = 1
  /\ current_tipo_pf = None
  /\ records = <<>>
  /\ current_block_lines = <<>>
  /\ current_head = None
  /\ blocks = <<>>
  /\ df_reg = <<>>
  /\ df_neg = <<>>
  /\ first_run = None

\* parse_money(m_in) is called and returns or raises
MoneyCall ==
  /\ m_pc = "call"
  /\ m_out' = parse_money(m_in)
  /\ m_pc' = "return"
  /\ UNCHANGED m_in
  /\ UNCHANGED parser_vars

NextMoney == MoneyCall

SpecMoney == InitMoney /\ [][NextMoney]_vars

(***************************************************************************)
(* Vocabulary of the properties                                            *)
(***************************************************************************)
IsHeadingLine(l) == head_of[l] # None
IsMarkerLine(l) == tipo_pf_of[l] # None
IsTrailingLine(l) == tail_in[l]

\* the parse has set up its locals / has returned
Scanning == pc \in {"loop", "parsed", "done"}
ParseDone == pc \in {"parsed", "done"}

\* positions in the input of the lines that match the heading pattern
HeadingPositions == {k \in 1..Len(lines) : IsHeadingLine(lines[k])}

\* the n-th smallest element of a set of numbers
NthOf(S, n) == CHOOSE x \in S : Cardinality({y \in S : y <= x}) = n

MaxOf(S) == CHOOSE x \in S : \A y \in S : y <= x

\* the position in the input of the heading line of the k-th record
HeadingOfRecord(k) == NthOf(HeadingPositions, k)

(***************************************************************************)
(* C1 - C5                                                                 *)
(***************************************************************************)
\* C1: once parse_text_blocks has finished (final flush included), there are
\* exactly as many records as input lines matching the heading pattern; a
\* heading directly followed by a heading, a marker or the end of the input
\* still counts once.
C1_RecordPerHeading ==
  ParseDone =>
    /\ Len(records) = Cardinality(HeadingPositions)
    /\ Len(df_reg) = Len(records)

\* a finished parse of heading, heading, marker: two records
C1_Witness ==
  /\ pc = "parsed"
  /\ Len(lines) = 3
  /\ IsHeadingLine(lines[1])
  /\ IsHeadingLine(lines[2])
  /\ IsMarkerLine(lines[3])
  /\ Len(records) = 2

C2_FieldsInOrder ==
  Scanning =>
    /\ \A k \in 1..Len(records) :
         LET h == head_of[lines[HeadingOfRecord(k)]][1]
         IN  /\ records[k].peg = h.peg
             /\ records[k].guia = h.guia
             /\ records[k].data = h.data
             /\ records[k].codigo = h.codigo
    /\ ParseDone =>
         /\ Len(df_reg) = Len(records)
         /\ \A k \in 1..Len(records) :
              /\ df_reg[k].peg = records[k].peg
              /\ df_reg[k].guia = records[k].guia
              /\ df_reg[k].codigo = records[k].codigo

C2_RecordsKept ==
  pc = "loop" =>
    /\ Len(records') >= Len(records)
    /\ SubSeq(records', 1, Len(records)) = records

\* C2: the i-th record carries peg, guia, data and codigo of the i-th heading
\* line of the input, and a later line never reorders, changes or removes a
\* record already appended.
C2_DocumentOrder == [](C2_FieldsInOrder) /\ [][C2_RecordsKept]_vars

\* a finished parse with two records from two different headings, the first
\* of them closed by a trailing line
C2_Witness ==
  /\ pc = "parsed"
  /\ Len(records) = 2
  /\ records[1].peg # records[2].peg
  /\ records[1].qtd # None

\* the labels on the marker lines are the lines trimmed and in upper case
MarkerLabels ==
  \A l \in LinePool :
    IsMarkerLine(l) =>
      /\ tipo_pf_of[l] = Some(upper(strip(l)))
      /\ upper(strip(l)) \in {CONSULTA, EXAME, OUTROS}

\* C3: a record's category is the uppercased label of the last marker line
\* before the record's heading line, and None exactly when there is none; a
\* marker after the heading does not change it.
C3_CategoryOfRecord ==
  Scanning =>
    /\ MarkerLabels
    /\ \A k \in 1..Len(records) :
         LET before == {j \in 1..(HeadingOfRecord(k) - 1) : IsMarkerLine(lines[j])}
         IN  records[k].tipo_pf =
               IF before = {} THEN None
               ELSE tipo_pf_of[lines[MaxOf(before)]]

\* " exame", a heading, "CONSULTA": the record is of category EXAME
C3_Witness ==
  /\ pc = "parsed"
  /\ Len(lines) = 3
  /\ pdf_lines[1] = Raw_M2
  /\ IsHeadingLine(lines[2])
  /\ lines[3] = CONSULTA
  /\ Len(records) = 1
  /\ records[1].tipo_pf = Some(EXAME)

\* the body lines of the block the k-th record was built from: its lines
\* other than the heading line (the first) and the trailing line (the last
\* one that matches the trailing pattern), in order
BodyOfBlock(k) ==
  LET blk   == blocks[k]
      tails == {j \in 1..Len(blk) : IsTrailingLine(blk[j])}
      idx   == (2..Len(blk)) \ (IF tails = {} THEN {} ELSE {MaxOf(tails)})
  IN  [n \in 1..Cardinality(idx) |-> blk[NthOf(idx, n)]]

C5_NoHeadingNoRecord ==
  (Scanning /\ HeadingPositions = {}) =>
    /\ records = <<>>
    /\ current_block_lines = <<>>
    /\ current_head = None
    /\ pc = "loop" => ENABLED Next
    /\ ParseDone => df_reg = <<>>

\* a finished run over a marker, a trailing-like line and a plain line
C5_Witness ==
  /\ pc = "done"
  /\ Len(lines) = 3
  /\ HeadingPositions = {}
  /\ \E k \in 1..3 : IsMarkerLine(lines[k])
  /\ \E k \in 1..3 : IsTrailingLine(lines[k])
  /\ \E k \in 1..3 : ~IsMarkerLine(lines[k]) /\ ~IsTrailingLine(lines[k])
  /\ df_reg = <<>>

(***************************************************************************)
(* C6 - C8                                                                 *)
(***************************************************************************)
\* C6: a second run of the parser on the same text gives the same tables as
\* the first: as many rows, in the same order, equal in every field.
C6_SameTablesAgain ==
  (pc = "done" /\ first_run # None) =>
    /\ Len(df_reg) = Len(first_run[1].df_reg)
    /\ \A k \in 1..Len(df_reg) : df_reg[k] = first_run[1].df_reg[k]
    /\ df_neg = first_run[1].df_neg

\* a second run has finished on a text with a marker and two records
C6_Witness ==
  /\ pc = "done"
  /\ first_run # None
  /\ Len(df_reg) = 2
  /\ df_reg[1].tipo_pf = None
  /\ df_reg[2].tipo_pf # None

Abs(x) == IF x < 0 THEN -x ELSE x

\* d is an integer nearest to paid * 0.30 - copart, the amounts being
\* paid.m / 10^paid.e and copart.m / 10^copart.e
IsNearestInteger(d, paid, copart) ==
  LET e  == IF paid.e + 1 > copart.e THEN paid.e + 1 ELSE copart.e
      n  == 3 * paid.m * Pow10(e - paid.e - 1) - copart.m * Pow10(e - copart.e)
  IN  2 * Abs(d * Pow10(e) - n) <= Pow10(e)

\* C7: a row with both amounts has novo_valor = paid * 0.30 - copart rounded
\* to the nearest integer (100 and 30 give 0, 200 and 10 give 50); a row
\* lacking either amount has no novo_valor, which is not the value 0.
C7_DerivedValue ==
  pc = "done" =>
    \A k \in 1..Len(df_reg) :
      LET r == df_reg[k]
      IN  IF r.valor_pago # None /\ r.coparticipacao # None
          THEN /\ r.novo_valor # None
               /\ IsNearestInteger(r.novo_valor[1], r.valor_pago[1],
                                   r.coparticipacao[1])
               /\ (r.valor_pago[1] = [m |-> 100, e |-> 0]
                   /\ r.coparticipacao[1] = [m |-> 30, e |-> 0])
                  => r.novo_valor = Some(0)
               /\ (r.valor_pago[1] = [m |-> 200, e |-> 0]
                   /\ r.coparticipacao[1] = [m |-> 10, e |-> 0])
                  => r.novo_valor = Some(50)
          ELSE /\ r.novo_valor = None
               /\ r.novo_valor # Some(0)

\* a table with a row of 12 and 30 (-26.4 rounded to -26) and a row whose
\* paid amount is absent while its co-participation is not
C7_Witness ==
  /\ pc = "done"
  /\ \E k \in 1..Len(df_reg) :
       /\ df_reg[k].valor_pago = Some([m |-> 12, e |-> 0])
       /\ df_reg[k].coparticipacao = Some([m |-> 30, e |-> 0])
       /\ df_reg[k].novo_valor = Some(-26)
  /\ \E k \in 1..Len(df_reg) :
       /\ df_reg[k].valor_pago = None
       /\ df_reg[k].coparticipacao # None
       /\ df_reg[k].novo_valor = None

\* C8: df_neg is made of exactly the rows of the table with novo_valor < 0,
\* in table order; a row with novo_valor >= 0 or without one is not in it.
C8_NegativeSubset ==
  (pc = "done" /\ df_reg # <<>>) =>
    LET neg == {k \in 1..Len(df_reg) :
                  df_reg[k].novo_valor # None /\ df_reg[k].novo_valor[1] < 0}
    IN  /\ Len(df_neg) = Cardinality(neg)
        /\ \A j \in 1..Len(df_neg) : df_neg[j] = df_reg[NthOf(neg, j)]

\* a table with a negative row, a row of value 0 and nothing else
C8_Witness ==
  /\ pc = "done"
  /\ Len(df_reg) = 2
  /\ df_reg[1].novo_valor = Some(0)
  /\ df_reg[2].novo_valor # None
  /\ df_reg[2].novo_valor[1] < 0
  /\ df_neg = <<df_reg[2]>>

(***************************************************************************)
(* C9 - C10 (parse_money on its own)                                       *)
(***************************************************************************)
\* the text parse_money converts: the amount behind the first currency
\* prefix if there is one, else the whole text
AmountText(s) ==
  LET m == MONEY_RE_search(s) IN IF m = None THEN s ELSE m[1]

\* '.' deleted and ',' turned into '.'
SeparatorConverted(t) ==
  LET kept == SelectSeq(t, LAMBDA c : c # ".")
  IN  [k \in 1..Len(kept) |-> IF kept[k] = "," THEN "." ELSE kept[k]]

\* t reads as a number: digits with at most one '.', at least one digit,
\* blanks allowed around it
IsNumberText(t) ==
  \E a \in 1..(Len(t) + 1), p \in 0..Len(t), b \in 0..Len(t) :
    /\ a <= p + 1 /\ p <= b
    /\ \A k \in 1..(a - 1) : t[k] \in Whitespace
    /\ \A k \in a..p : t[k] \in Digits
    /\ p < b => t[p + 1] = "." /\ \A k \in (p + 2)..b : t[k] \in Digits
    /\ \A k \in (b + 1)..Len(t) : t[k] \in Whitespace
    /\ \E k \in a..b : t[k] \in Digits

\* C9: parse_money never raises; it returns None for None, for the empty
\* text and for a text whose separator-converted amount is no number (two
\* decimal commas, say), and a number otherwise.
C9_NeverRaises ==
  m_pc = "return" =>
    /\ ~m_out.raised
    /\ IF m_in = None \/ m_in = Some(<<>>)
       THEN m_out.val = None
       ELSE LET t == SeparatorConverted(AmountText(m_in[1]))
            IN  /\ IsNumberText(t) => m_out.val # None /\ m_out.val[1].m >= 0
                /\ ~IsNumberText(t) => m_out.val = None
                /\ Cardinality({k \in 1..Len(AmountText(m_in[1])) :
                                  AmountText(m_in[1])[k] = ","}) >= 2
                   => m_out.val = None

\* parse_money has returned None for "1,2,", whose conversion made
\* float() raise
C9_Witness ==
  /\ m_pc = "return"
  /\ m_in = Some(<<"1", ",", "2", ",">>)
  /\ float(SeparatorConverted(m_in[1])).raised
  /\ m_out = [raised |-> FALSE, val |-> None]

\* s without a leading currency prefix and the blanks behind it
WithoutPrefix(s) ==
  IF Len(s) >= 2 /\ s[1] = "R" /\ s[2] = "$"
  THEN Slice(s, SkipWhile(s, 3, Whitespace), Len(s) + 1)
  ELSE s

\* digit groups separated by '.', then one ',', then digits
IsLocaleAmount(t) ==
  LET commas == {k \in 1..Len(t) : t[k] = ","}
  IN  /\ Cardinality(commas) = 1
      /\ \A k \in 1..Len(t) : t[k] \in MoneyChars
      /\ t[1] \in Digits
      /\ t[Len(t)] \in Digits
      /\ \A k \in 1..Len(t) :
           t[k] \in {".", ","} => t[k - 1] \in Digits /\ t[k + 1] \in Digits
      /\ \A k \in 1..Len(t) : t[k] = "." => \A c \in commas : k < c

\* the number a locale amount denotes: the digits before the ',' as the
\* integer part, the digits after it as the fraction
LocaleValue(t) ==
  LET c     == CHOOSE k \in 1..Len(t) : t[k] = ","
      whole == SelectSeq(SubSeq(t, 1, c - 1), LAMBDA x : x \in Digits)
      frac  == SubSeq(t, c + 1, Len(t))
  IN  Norm(int(whole) * Pow10(Len(frac)) + int(frac), Len(frac))

\* C10: on a well-formed locale amount parse_money returns, with or without
\* the R$ prefix, the number got by deleting every '.' and reading ',' as
\* the decimal point; "R$ 1.234,56" and "1.234,56" both give 1234.56.
C10_LocaleAmount ==
  (m_pc = "return" /\ m_in # None) =>
    LET t == WithoutPrefix(m_in[1])
    IN  /\ (t # <<>> /\ IsLocaleAmount(t)) =>
             m_out = [raised |-> FALSE, val |-> Some(LocaleValue(t))]
        /\ t = Text_1234_56 => m_out.val = Some([m |-> 123456, e |-> 2])

\* parse_money has returned 1234.56 for "R$ 1.234,56"
C10_Witness ==
  /\ m_pc = "return"
  /\ m_in = Some(Prefix_RS_blank \o Text_1234_56)
  /\ IsLocaleAmount(WithoutPrefix(m_in[1]))
  /\ m_out.val = Some([m |-> 123456, e |-> 2])

(***************************************************************************)
(* C11 - C20                                                               *)
(***************************************************************************)
\* a text of the shape dd/dd/dddd names a day of the calendar
IsCalendarDate(text) ==
  LET d == int(SubSeq(text, 1, 2))
      m == int(SubSeq(text, 4, 5))
      y == int(SubSeq(text, 7, 10))
  IN  y >= 1 /\ m \in 1..12 /\ d >= 1 /\ d <= days_in_month(m, y)

\* the fields of a row other than its date are those of the record
OtherFieldsKept(row, rec) ==
  /\ row.tipo_pf = rec.tipo_pf
  /\ row.peg = rec.peg
  /\ row.guia = rec.guia
  /\ row.codigo = rec.codigo
  /\ row.descricao = rec.descricao
  /\ row.prestador = rec.prestador
  /\ row.qtd = rec.qtd
  /\ row.valor_pago = rec.valor_pago
  /\ row.coparticipacao = rec.coparticipacao

\* C11: a record whose heading date has the shape DD/MM/YYYY but is no
\* calendar date stays in the table with its date absent and its other
\* fields unchanged; a record whose heading date is a calendar date has in
\* the final table exactly the text of its heading line.
C11_DatesInTable ==
  (pc = "done" /\ df_reg # <<>>) =>
    /\ Len(df_reg) = Len(records)
    /\ \A k \in 1..Len(records) :
         /\ OtherFieldsKept(df_reg[k], records[k])
         /\ df_reg[k].data =
              IF IsCalendarDate(records[k].data) THEN Some(records[k].data)
              ELSE None

\* a line that is neither a heading line nor a marker line
IsPlainLine(l) == ~IsHeadingLine(l) /\ ~IsMarkerLine(l)

\* the loop is about to consume a line while a block is active
ConsumingInBlock ==
  /\ pc = "loop"
  /\ pos <= Len(lines)
  /\ current_head # None

\* the step appends exactly one record and leaves no block behind
EmitsAndGoesIdle ==
  /\ Len(records') = Len(records) + 1
  /\ SubSeq(records', 1, Len(records)) = records
  /\ current_head' = None
  /\ current_block_lines' = <<>>

C12_TrailingStep ==
  (ConsumingInBlock /\ IsPlainLine(lines[pos]) /\ IsTrailingLine(lines[pos])) =>
    /\ EmitsAndGoesIdle
    /\ blocks' = Append(blocks, Append(current_block_lines, lines[pos]))
    /\ records'[Len(records')].qtd # None

\* the first plain trailing line after the heading at h with no heading and
\* no marker in between ends the block of that heading
C12_DroppedAfterTrailing ==
  ParseDone =>
    \A k \in 1..Len(records) :
      LET h == HeadingOfRecord(k)
      IN  \A p \in (h + 1)..Len(lines) :
            ( /\ IsPlainLine(lines[p])
              /\ IsTrailingLine(lines[p])
              /\ \A q \in (h + 1)..(p - 1) :
                   IsPlainLine(lines[q]) /\ ~IsTrailingLine(lines[q]) )
            => blocks[k] = SubSeq(lines, h, p)

\* C12: while a block is active, a line that is neither heading nor marker
\* and matches the trailing pattern is appended, the record of the block is
\* emitted at once and no block is active afterwards; the lines that follow
\* up to the next heading line are in no block, so in no field of a record,
\* even when they match the trailing pattern too.
C12_EarlyFlush == [][C12_TrailingStep]_vars /\ [](C12_DroppedAfterTrailing)

\* heading, trailing line, a second trailing line: the record is built from
\* the first two lines, the third is dropped
C12_Witness ==
  /\ pc = "parsed"
  /\ Len(lines) = 3
  /\ IsHeadingLine(lines[1]) /\ ~IsTrailingLine(lines[1])
  /\ IsPlainLine(lines[2]) /\ IsTrailingLine(lines[2])
  /\ IsPlainLine(lines[3]) /\ IsTrailingLine(lines[3])
  /\ lines[3] # lines[2]
  /\ Len(records) = 1
  /\ blocks[1] = SubSeq(lines, 1, 2)
  /\ records[1].qtd = Some(int(vals_of[lines[2]][1].qtd))

\* the record was built from a block holding only its heading line
HeadingOnlyBlock(k) == Len(blocks[k]) = 1

\* peg, guia, data and codigo of the k-th record are the groups of its heading
HeadingFieldsPopulated(k) ==
  LET head == head_of[blocks[k][1]]
  IN  /\ head # None
      /\ records[k].peg = head[1].peg /\ records[k].peg # <<>>
      /\ records[k].guia = head[1].guia /\ records[k].guia # <<>>
      /\ records[k].data = head[1].data /\ records[k].data # <<>>
      /\ records[k].codigo = head[1].codigo /\ records[k].codigo # <<>>

NoBodyFields(k) ==
  /\ records[k].descricao = None
  /\ records[k].prestador = None

NoTrailingFields(k) ==
  /\ records[k].qtd = None
  /\ records[k].valor_pago = None
  /\ records[k].coparticipacao = None

\* C13 as stated: a block holding only its heading line (a heading followed
\* at once by a heading, a marker or the end of the input) still gives a
\* record, with description, provider, quantity, paid amount and
\* co-participation all absent and peg, guide, date and code populated.
C13_HeadingOnlyAllAbsent ==
  Scanning =>
    \A k \in 1..Len(records) :
      HeadingOnlyBlock(k) =>
        /\ HeadingFieldsPopulated(k)
        /\ NoBodyFields(k)
        /\ NoTrailingFields(k)

\* C13, amended: a block holding only its heading line still gives a record
\* with peg, guide, date and code populated and description and provider
\* absent; quantity, paid amount and co-participation are absent when the
\* heading line does not match the trailing pattern, and are those at the
\* end of the heading line when it does.
C13_HeadingOnlyRecord ==
  Scanning =>
    /\ Len(blocks) = Len(records)
    /\ \A k \in 1..Len(records) :
         HeadingOnlyBlock(k) =>
           /\ HeadingFieldsPopulated(k)
           /\ NoBodyFields(k)
           /\ ~IsTrailingLine(blocks[k][1]) => NoTrailingFields(k)
           /\ IsTrailingLine(blocks[k][1]) =>
                LET mvals == vals_of[blocks[k][1]][1]
                IN  /\ records[k].qtd = Some(int(mvals.qtd))
                    /\ records[k].valor_pago = parse_money(Some(mvals.vl_pago)).val
                    /\ records[k].coparticipacao = parse_money(Some(mvals.copart)).val

\* heading, heading with amounts at its end, marker: two records from
\* heading-only blocks, the first without and the second with a quantity
C13_Witness ==
  /\ pc = "parsed"
  /\ Len(lines) = 3
  /\ Len(records) = 2
  /\ HeadingOnlyBlock(1) /\ HeadingOnlyBlock(2)
  /\ ~IsTrailingLine(lines[1]) /\ records[1].qtd = None
  /\ IsTrailingLine(lines[2]) /\ records[2].qtd = Some(1)
  /\ IsMarkerLine(lines[3])

\* C14: every line placed in a block is tested for the trailing pattern to
\* decide when to flush, the heading line included: between two line steps
\* an active block holds no line that matches the trailing pattern.
C14_NoTrailingInActiveBlock ==
  (pc = "loop" /\ current_head # None) =>
    \A j \in 1..Len(current_block_lines) :
      ~IsTrailingLine(current_block_lines[j])

\* quantity and amounts of the k-th record are those written at the end of
\* line l
TrailingFieldsFrom(k, l) ==
  LET mvals == vals_of[l]
  IN  IF mvals = None THEN NoTrailingFields(k)
      ELSE /\ records[k].qtd = Some(int(mvals[1].qtd))
           /\ records[k].valor_pago = parse_money(Some(mvals[1].vl_pago)).val
           /\ records[k].coparticipacao = parse_money(Some(mvals[1].copart)).val

\* C15: the trailing line of a flushed block is its last line that matches
\* the trailing pattern, the heading line included in the scan; quantity,
\* paid amount and co-participation come from that line and from no other,
\* and are absent when no line of the block matches.
C15_LastTrailingLine ==
  Scanning =>
    \A k \in 1..Len(blocks) :
      LET blk  == blocks[k]
          hits == {j \in 1..Len(blk) : IsTrailingLine(blk[j])}
      IN  IF hits = {} THEN NoTrailingFields(k)
          ELSE TrailingFieldsFrom(k, blk[MaxOf(hits)])

\* a heading line with amounts at its end followed by a trailing line with
\* other amounts: the record has the quantity of the second line
C15_Witness ==
  /\ pc = "parsed"
  /\ Len(records) = 1
  /\ Len(blocks[1]) = 2
  /\ IsTrailingLine(blocks[1][1])
  /\ IsTrailingLine(blocks[1][2])
  /\ vals_of[blocks[1][1]][1].qtd # vals_of[blocks[1][2]][1].qtd
  /\ records[1].qtd = Some(int(vals_of[blocks[1][2]][1].qtd))
  /\ records[1].valor_pago # None

C16_MarkerStep ==
  (ConsumingInBlock /\ IsMarkerLine(lines[pos])) =>
    /\ EmitsAndGoesIdle
    /\ blocks' = Append(blocks, current_block_lines)
    /\ current_tipo_pf' = tipo_pf_of[lines[pos]]

\* no block holds a marker line, and the first marker after the heading at
\* h with only plain lines without the trailing pattern in between ends the
\* block of that heading just before itself
C16_MarkerOutsideBlocks ==
  ParseDone =>
    \A k \in 1..Len(records) :
      LET h == HeadingOfRecord(k)
      IN  /\ \A j \in 1..Len(blocks[k]) : ~IsMarkerLine(blocks[k][j])
          /\ \A p \in (h + 1)..Len(lines) :
               ( /\ IsMarkerLine(lines[p])
                 /\ \A q \in (h + 1)..(p - 1) :
                      IsPlainLine(lines[q]) /\ ~IsTrailingLine(lines[q]) )
               => blocks[k] = SubSeq(lines, h, p - 1)

\* C16: a marker line seen while a block is active closes the block as a
\* record, no trailing line needed, sets the category to the new label and
\* leaves no active block; the marker line is in no block, and the lines
\* after it that are not headings are dropped until the next heading, a
\* line with quantity and amounts included.
C16_MarkerClosesBlock == [][C16_MarkerStep]_vars /\ [](C16_MarkerOutsideBlocks)

\* heading, marker, trailing line: one record built from the heading alone,
\* without quantity, and the category of the marker is set
C16_Witness ==
  /\ pc = "parsed"
  /\ Len(lines) = 3
  /\ IsHeadingLine(lines[1]) /\ ~IsTrailingLine(lines[1])
  /\ IsMarkerLine(lines[2])
  /\ IsPlainLine(lines[3]) /\ IsTrailingLine(lines[3])
  /\ Len(records) = 1
  /\ blocks[1] = <<lines[1]>>
  /\ records[1].qtd = None
  /\ records[1].tipo_pf = None
  /\ current_tipo_pf = tipo_pf_of[lines[2]]

\* the input is used up while a block is active
EndOfInputInBlock ==
  /\ pc = "loop"
  /\ pos > Len(lines)
  /\ current_head # None

C17_FinalFlushStep ==
  EndOfInputInBlock =>
    LET body == Tail(current_block_lines)
        n    == Len(body)
        rec  == records'[Len(records')]
    IN  /\ Len(records') = Len(records) + 1
        /\ SubSeq(records', 1, Len(records)) = records
        /\ Len(df_reg') = Len(records')
        /\ ~IsTrailingLine(current_block_lines[1]) =>
             /\ rec.qtd = None
             /\ rec.valor_pago = None
             /\ rec.coparticipacao = None
        /\ n = 0 => rec.prestador = None /\ rec.descricao = None
        /\ n = 1 => rec.prestador = Some(body[1]) /\ rec.descricao = None
        /\ n >= 2 => /\ rec.prestador = Some(body[n])
                     /\ rec.descricao = Some(join(SubSeq(body, 1, n - 1)))

\* C17: a block still in progress when the input ends is emitted as a
\* record by the final flush although no trailing line was seen: quantity,
\* paid amount and co-participation are absent (when the heading line
\* carries no trailing pattern), the provider is the last accumulated line
\* after the heading and the description the earlier ones.
C17_FinalFlush == [][C17_FinalFlushStep]_vars

\* heading and two more lines, then the end of the input
C17_Witness ==
  /\ pc = "parsed"
  /\ Len(lines) = 3
  /\ IsHeadingLine(lines[1]) /\ ~IsTrailingLine(lines[1])
  /\ Len(records) = 1
  /\ blocks[1] = lines
  /\ records[1].qtd = None
  /\ records[1].prestador = Some(lines[3])
  /\ records[1].descricao = Some(lines[2])
  /\ lines[2] # lines[3]

\* the positions in the input of the lines of the block of the k-th record
SpanOfRecord(k) ==
  LET h == HeadingOfRecord(k)
  IN  h..(h + Len(blocks[k]) - 1)

\* the positions in the input of the lines that give the k-th record its
\* description and provider: those of its block other than the heading line
\* and the trailing line used
BodyPositions(k) ==
  LET h     == HeadingOfRecord(k)
      tails == {p \in SpanOfRecord(k) : IsTrailingLine(lines[p])}
  IN  (SpanOfRecord(k) \ {h}) \ (IF tails = {} THEN {} ELSE {MaxOf(tails)})

\* a line that ends the run of lines after a heading
IsStopLine(l) == IsHeadingLine(l) \/ IsMarkerLine(l) \/ IsTrailingLine(l)

\* C18: lines are never attributed across blocks: every line that gives a
\* record its description or provider lies in the input strictly after the
\* heading line of that record and before the first later line that is a
\* heading, a marker or a trailing line, and each input line contributes to
\* at most one record.
C18_NoCrossAttribution ==
  ParseDone =>
    /\ Len(blocks) = Len(records)
    /\ Len(records) = Cardinality(HeadingPositions)
    /\ \A k \in 1..Len(records) :
         LET h    == HeadingOfRecord(k)
             span == SpanOfRecord(k)
             body == BodyPositions(k)
             n    == Cardinality(body)
         IN  /\ \A p \in span : p <= Len(lines)
             /\ blocks[k] = [j \in 1..Len(blocks[k]) |-> lines[h + j - 1]]
             /\ \A p \in body :
                  /\ p > h
                  /\ \A q \in (h + 1)..p : ~IsStopLine(lines[q])
             /\ records[k].prestador =
                  IF n = 0 THEN None ELSE Some(lines[MaxOf(body)])
             /\ records[k].descricao =
                  IF n < 2 THEN None
                  ELSE Some(join([i \in 1..(n - 1) |-> lines[NthOf(body, i)]]))
    /\ \A k1, k2 \in 1..Len(records) :
         k1 # k2 => SpanOfRecord(k1) \cap SpanOfRecord(k2) = {}

\* heading, body line, heading: the second heading closes the first block,
\* the body line belongs to the first record only
C18_Witness ==
  /\ pc = "parsed"
  /\ Len(lines) = 3
  /\ Len(records) = 2
  /\ SpanOfRecord(1) = {1, 2}
  /\ SpanOfRecord(2) = {3}
  /\ BodyPositions(1) = {2}
  /\ BodyPositions(2) = {}
  /\ records[1].prestador = Some(lines[2])
  /\ records[2].prestador = None

\* between two line steps: the heading is present exactly when lines are
\* accumulated; the block then is the run of input lines from the last
\* heading line up to the line before the next one to consume, its first
\* line gave the active heading and no other line of it is a heading or a
\* marker
C19_BlockShape ==
  pc = "loop" =>
    /\ (current_head # None) <=> (current_block_lines # <<>>)
    /\ current_head # None =>
         LET seen == {p \in 1..(pos - 1) : IsHeadingLine(lines[p])}
         IN  /\ seen # {}
             /\ current_block_lines = SubSeq(lines, MaxOf(seen), pos - 1)
             /\ current_head = head_of[current_block_lines[1]]
             /\ \A j \in 2..Len(current_block_lines) :
                  IsPlainLine(current_block_lines[j])

NoActiveBlockAfter ==
  /\ current_head' = None
  /\ current_block_lines' = <<>>

\* the steps that end with a flush (a plain trailing line in a block, the end
\* of the input) leave no block and keep the category; a marker step leaves
\* no block either; only a marker step changes the category
C19_FlushStep ==
  /\ (ConsumingInBlock /\ IsPlainLine(lines[pos]) /\ IsTrailingLine(lines[pos]))
       => NoActiveBlockAfter
  /\ (pc = "loop" /\ pos > Len(lines)) => NoActiveBlockAfter
  /\ (pc = "loop" /\ pos <= Len(lines) /\ IsMarkerLine(lines[pos]))
       => NoActiveBlockAfter
  /\ (pc = "loop" /\ ~(pos <= Len(lines) /\ IsMarkerLine(lines[pos])))
       => current_tipo_pf' = current_tipo_pf

\* C19: between two line steps the active heading is present if and only if
\* the accumulated list is not empty; when present, the first accumulated
\* line is the heading line that produced it and no other accumulated line
\* is a heading or a marker; every flush, emitting or not, leaves the
\* heading absent and the list empty and does not change the category.
C19_ScanInvariant == [](C19_BlockShape) /\ [][C19_FlushStep]_vars

\* after marker, heading and a body line a block of two lines is active, and
\* a flush that emits nothing (a marker while idle) has happened before
C19_Witness ==
  /\ pc = "loop"
  /\ pos = 4
  /\ IsMarkerLine(lines[1])
  /\ current_head # None
  /\ current_block_lines = SubSeq(lines, 2, 3)
  /\ current_tipo_pf = tipo_pf_of[lines[1]]
  /\ records = <<>>

\* an amount text the Money Normalizer rejects: with '.' deleted and ','
\* turned into '.' it does not read as a number
IsRejectedAmount(t) == ~IsNumberText(SeparatorConverted(AmountText(t)))

\* for each line the value grammar accepts, whether its paid amount and its
\* co-participation amount are rejected
paid_rejected ==
  [l \in {x \in LinePool : vals_of[x] # None} |->
     IsRejectedAmount(vals_of[l][1].vl_pago)] @@ <<>>
copart_rejected ==
  [l \in {x \in LinePool : vals_of[x] # None} |->
     IsRejectedAmount(vals_of[l][1].copart)] @@ <<>>

\* C20: the value grammar accepts exactly the lines the trailing pattern
\* accepts, so a record has a quantity if and only if its block holds a
\* line matching the trailing pattern ('trailing line found but quantity
\* absent' does not happen), and a record with a quantity lacks the paid or
\* the co-participation amount only when the Money Normalizer rejects the
\* captured amount text.
C20_ValsWheneverTail ==
  Scanning =>
    /\ \A p \in 1..Len(lines) :
         IsTrailingLine(lines[p]) <=> (vals_of[lines[p]] # None)
    /\ \A k \in 1..Len(records) :
         LET blk  == blocks[k]
             hits == {j \in 1..Len(blk) : IsTrailingLine(blk[j])}
         IN  /\ (records[k].qtd # None) <=> (hits # {})
             /\ records[k].qtd = None =>
                  /\ records[k].valor_pago = None
                  /\ records[k].coparticipacao = None
             /\ records[k].qtd # None =>
                  /\ records[k].valor_pago = None
                       => paid_rejected[blk[MaxOf(hits)]]
                  /\ records[k].coparticipacao = None
                       => copart_rejected[blk[MaxOf(hits)]]

\* a record whose trailing line carries the paid amount '1,2,3': quantity
\* and co-participation present, paid amount absent
C20_Witness ==
  /\ pc = "parsed"
  /\ Len(records) = 1
  /\ Len(blocks[1]) = 2
  /\ IsTrailingLine(blocks[1][2])
  /\ vals_of[blocks[1][2]][1].vl_pago = <<"1", ",", "2", ",", "3">>
  /\ records[1].qtd = Some(3)
  /\ records[1].valor_pago = None
  /\ records[1].coparticipacao # None

====
